---- MODULE Spec2Model ----
(***************************************************************************)
(* RepoNuke (batch_delete.py): bulk deletion of GitHub repositories        *)
(* through the external gh client.  The model follows main() and the       *)
(* methods of BatchDeleter.  Text (repository names, usernames, file       *)
(* lines, typed input) is a sequence of one-character strings, so that     *)
(* str.strip, str.split, str.lower and int() are computed, not assumed.    *)
(***************************************************************************)
EXTENDS Integers, Sequences, FiniteSets, TLC

VARIABLES
    pc,                    \* position of the single thread of control
    exit_code,             \* -1 while running or returned, else sys.exit code
    args,                  \* argparse namespace (line 343)
    username,              \* self.username
    repositories,          \* self.repositories
    dry_run,               \* self.dry_run
    successful_deletions,  \* self.successful_deletions
    failed_deletions,      \* self.failed_deletions
    total,                 \* local `total` of batch_delete
    valid_repos,           \* local `valid_repos` of batch_delete
    idx,                   \* loop position in the validation / deletion loop
    log,                   \* lines appended to LOG_FILE, oldest first
    calls,                 \* gh invocations after the prerequisite checks, oldest first
    prompts,               \* input() prompts answered, with the answer
    config,                \* what load_config found at the --config path
    listfile,              \* what load_from_file found at the --file path
    listed                 \* what list_repositories returned to the picker

vars == <<pc, exit_code, args, username, repositories, dry_run,
          successful_deletions, failed_deletions, total, valid_repos, idx,
          log, calls, prompts, config, listfile, listed>>

-----------------------------------------------------------------------------
(* Bounds of the model *)

MaxArgs == 2        \* positional repository arguments
MaxFileLines == 2   \* lines of the --file list
MaxRepos == 3       \* candidates handed to batch_delete
MaxListed == 5      \* repositories listed to the picker

-----------------------------------------------------------------------------
(* Text helpers *)

Whitespace == {" ", "\t", "\n"}

RECURSIVE lstrip(_)
lstrip(s) ==
    IF s = <<>> THEN <<>>
    ELSE IF Head(s) \in Whitespace THEN lstrip(Tail(s)) ELSE s

RECURSIVE rstrip(_)
rstrip(s) ==
    IF s = <<>> THEN <<>>
    ELSE IF s[Len(s)] \in Whitespace THEN rstrip(SubSeq(s, 1, Len(s) - 1))
    ELSE s

\* str.strip()
strip(s) == rstrip(lstrip(s))

\* str.startswith('#')
startswith_hash(s) == s # <<>> /\ Head(s) = "#"

UpperToLower ==
    [c \in {"A", "L", "D", "E", "T"} |->
        CASE c = "A" -> "a" [] c = "L" -> "l" [] c = "D" -> "d"
          [] c = "E" -> "e" [] c = "T" -> "t"]

\* str.lower()
lower(s) ==
    [k \in 1..Len(s) |->
        IF s[k] \in DOMAIN UpperToLower THEN UpperToLower[s[k]] ELSE s[k]]

\* str.split(): maximal runs of non-whitespace characters, in order
RECURSIVE split_from(_, _, _)
split_from(s, cur, acc) ==
    IF s = <<>> THEN (IF cur = <<>> THEN acc ELSE Append(acc, cur))
    ELSE IF Head(s) \in Whitespace
         THEN split_from(Tail(s), <<>>,
                         IF cur = <<>> THEN acc ELSE Append(acc, cur))
         ELSE split_from(Tail(s), Append(cur, Head(s)), acc)

split(s) == split_from(s, <<>>, <<>>)

Digits == {"0", "1", "2", "3", "4", "5", "6", "7", "8", "9"}

DigitVal ==
    [c \in Digits |->
        CASE c = "0" -> 0 [] c = "1" -> 1 [] c = "2" -> 2 [] c = "3" -> 3
          [] c = "4" -> 4 [] c = "5" -> 5 [] c = "6" -> 6 [] c = "7" -> 7
          [] c = "8" -> 8 [] c = "9" -> 9]

RECURSIVE digits_value(_, _)
digits_value(s, acc) ==
    IF s = <<>> THEN acc
    ELSE IF Head(s) = "_" THEN digits_value(Tail(s), acc)
    ELSE digits_value(Tail(s), 10 * acc + DigitVal[Head(s)])

\* the digit part of an int() literal: digits, single underscores between
digits_ok(s) ==
    /\ s # <<>>
    /\ \A k \in 1..Len(s) : s[k] \in Digits \cup {"_"}
    /\ s[1] \in Digits /\ s[Len(s)] \in Digits
    /\ \A k \in 1..(Len(s) - 1) : ~(s[k] = "_" /\ s[k + 1] = "_")

\* int(num_str): [ok |-> FALSE] stands for ValueError
int(s) ==
    LET signed == s # <<>> /\ Head(s) \in {"+", "-"}
        body == IF signed THEN Tail(s) ELSE s
    IN  IF digits_ok(body)
        THEN [ok |-> TRUE,
              val |-> IF signed /\ Head(s) = "-"
                      THEN 0 - digits_value(body, 0)
                      ELSE digits_value(body, 0)]
        ELSE [ok |-> FALSE, val |-> 0]

-----------------------------------------------------------------------------
(* Inputs: command line, files, operator input, outcomes of the gh client *)

Names == {<<"a">>, <<"b">>}

RECURSIVE SeqsUpTo(_, _)
SeqsUpTo(S, n) ==
    IF n = 0 THEN {<<>>}
    ELSE SeqsUpTo(S, n - 1) \cup [1..n -> S]

\* args.username: <<>> stands for an absent or empty -u (both falsy, line 350)
UsernameArgs == {<<>>, <<"f">>}

ArgSpace ==
    [repositories : SeqsUpTo(Names, MaxArgs),
     username : UsernameArgs,
     file : BOOLEAN,          \* a non-empty --file path was given
     config : BOOLEAN,        \* a non-empty --config path was given
     auto_confirm : BOOLEAN,
     dry_run : BOOLEAN,
     interactive : BOOLEAN]

\* decoded JSON of the configuration file: each field may be missing
ConfigUsernames == {<<>>, <<"c">>}

ConfigRepositories == {<<>>, <<<<"b">>, <<"a">>>>}

NoJson == [k \in {} |-> <<>>]

ConfigJson ==
    {NoJson}
    \cup [username : ConfigUsernames]
    \cup [repositories : ConfigRepositories]
    \cup [username : ConfigUsernames, repositories : ConfigRepositories]

ConfigOutcomes ==
    {[status |-> "missing", json |-> NoJson],
     [status |-> "malformed", json |-> NoJson]}
    \cup [status : {"ok"}, json : ConfigJson]

\* raw lines of the list file, as the file iterator yields them
RawLines ==
    {<<" ", "b", " ", "\n">>, <<" ", "#", "a", "\n">>, <<" ", "\n">>}

FileOutcomes ==
    {[status |-> "missing", lines |-> <<>>],
     [status |-> "unreadable", lines |-> <<>>]}
    \cup [status : {"ok"}, lines : SeqsUpTo(RawLines, MaxFileLines)]

\* gh api user --jq .login: return code and stdout
UserQueryOutcomes ==
    {[ok |-> FALSE, stdout |-> <<>>],
     [ok |-> TRUE, stdout |-> <<"g", "\n">>],
     [ok |-> TRUE, stdout |-> <<>>]}

Interrupt == [interrupt |-> TRUE, text |-> <<>>]

Typed(t) == [interrupt |-> FALSE, text |-> t]

\* gh repo list ...: stdout already cut at '\n' (str.split('\n'))
ListOutcomes ==
    {[ok |-> FALSE, lines |-> <<>>],
     [ok |-> TRUE, lines |-> <<>>],
     [ok |-> TRUE, lines |-> <<<<"a">>, <<" ", "b">>, <<>>>>]}

SelectionInputs ==
    {Interrupt, Typed(<<"a", "l", "l">>), Typed(<<"2">>), Typed(<<"x">>)}

DELETE == <<"D", "E", "L", "E", "T", "E">>

ConfirmInputs ==
    {Interrupt, Typed(DELETE), Typed(<<"d", "e", "l", "e", "t", "e">>),
     Typed(<<"D", "e", "l", "e", "t", "e">>), Typed(DELETE \o <<" ">>),
     Typed(<<>>)}

-----------------------------------------------------------------------------
(* Bookkeeping shared by the actions *)

Call(cmd, target, ok) == [cmd |-> cmd, target |-> target, ok |-> ok]

\* f"{self.username}/{repo}"
FullName(user, repo) == <<user, repo>>

\* sys.exit(code)
Exit(code) == pc' = "exit" /\ exit_code' = code

Goto(label) == pc' = label /\ UNCHANGED exit_code

-----------------------------------------------------------------------------
Init ==
    /\ pc = "main"
    /\ exit_code = -1
    /\ args \in ArgSpace
    /\ username = <<>>
    /\ repositories = <<>>
    /\ dry_run = FALSE
    /\ successful_deletions = 0
    /\ failed_deletions = 0
    /\ total = 0
    /\ valid_repos = <<>>
    /\ idx = 0
    /\ log = <<>>
    /\ calls = <<>>
    /\ prompts = <<>>
    /\ config = [status |-> "unread", json |-> NoJson]
    /\ listfile = [status |-> "unread", lines |-> <<>>]
    /\ listed = <<>>

\* main(), lines 343-357: parse, construct, copy the flags, open the log
main_start ==
    /\ pc = "main"
    /\ dry_run' = args.dry_run
    /\ username' = IF args.username # <<>> THEN args.username ELSE username
    /\ log' = Append(log, <<"Starting">>)
    /\ Goto("check_gh")
    /\ UNCHANGED <<args, repositories, successful_deletions, failed_deletions,
                   total, valid_repos, idx, calls, prompts, config, listfile,
                   listed>>

\* check_gh_cli, lines 55-66
check_gh ==
    /\ pc = "check_gh"
    /\ \E ok \in BOOLEAN : IF ok THEN Goto("check_auth") ELSE Exit(1)
    /\ UNCHANGED <<args, username, repositories, dry_run,
                   successful_deletions, failed_deletions, total, valid_repos,
                   idx, log, calls, prompts, config, listfile, listed>>

\* check_auth, lines 68-95
check_auth ==
    /\ pc = "check_auth"
    /\ \E status_ok, api_ok, refresh_ok \in BOOLEAN :
        IF status_ok /\ (api_ok \/ refresh_ok)
        THEN Goto("get_username") ELSE Exit(1)
    /\ UNCHANGED <<args, username, repositories, dry_run,
                   successful_deletions, failed_deletions, total, valid_repos,
                   idx, log, calls, prompts, config, listfile, listed>>

\* get_username, lines 97-105
get_username ==
    /\ pc = "get_username"
    /\ IF username = <<>>
       THEN \E r \in UserQueryOutcomes :
               /\ calls' = Append(calls, Call("api user login", r.stdout, r.ok))
               /\ username' = IF r.ok THEN strip(r.stdout) ELSE username
       ELSE UNCHANGED <<calls, username>>
    /\ Goto("config")
    /\ UNCHANGED <<args, repositories, dry_run, successful_deletions,
                   failed_deletions, total, valid_repos, idx, log, prompts,
                   config, listfile, listed>>

\* 'username' in config and config['username']
HasField(json, field) == field \in DOMAIN json /\ json[field] # <<>>

load_config_clobber ==
    \E c \in ConfigOutcomes :
        /\ config' = c
        /\ IF c.status = "ok"
           THEN /\ username' = IF "username" \in DOMAIN c.json
                               THEN c.json["username"] ELSE <<>>
                /\ repositories' = IF HasField(c.json, "repositories")
                                   THEN c.json["repositories"]
                                   ELSE repositories
                /\ Goto("file")
           ELSE /\ Exit(1)
                /\ UNCHANGED <<username, repositories>>

\* load_config, lines 184-207
load_config ==
    \E c \in ConfigOutcomes :
        /\ config' = c
        /\ IF c.status = "ok"
           THEN /\ username' = IF HasField(c.json, "username")
                               THEN c.json["username"] ELSE username
                /\ repositories' = IF HasField(c.json, "repositories")
                                   THEN c.json["repositories"]
                                   ELSE repositories
                /\ Goto("file")
           ELSE /\ Exit(1)
                /\ UNCHANGED <<username, repositories>>

\* main(), lines 365-366
main_config ==
    /\ pc = "config"
    /\ IF args.config
       THEN load_config
       ELSE Goto("file") /\ UNCHANGED <<username, repositories, config>>
    /\ UNCHANGED <<args, dry_run, successful_deletions, failed_deletions,
                   total, valid_repos, idx, log, calls, prompts, listfile,
                   listed>>

RECURSIVE read_lines_raw(_, _)
read_lines_raw(lines, repos) ==
    IF lines = <<>> THEN repos
    ELSE LET line == Head(lines)
         IN  read_lines_raw(Tail(lines),
                            IF line # <<>> /\ ~startswith_hash(line)
                            THEN Append(repos, line) ELSE repos)

\* the loop of load_from_file, lines 172-176
RECURSIVE read_lines(_, _)
read_lines(lines, repos) ==
    IF lines = <<>> THEN repos
    ELSE LET line == strip(Head(lines))
         IN  read_lines(Tail(lines),
                        IF line # <<>> /\ ~startswith_hash(line)
                        THEN Append(repos, line) ELSE repos)

\* load_from_file, lines 163-182
load_from_file ==
    \E f \in FileOutcomes :
        /\ listfile' = f
        /\ IF f.status = "ok"
           THEN /\ repositories' = read_lines(f.lines, <<>>)
                /\ Goto("extend")
           ELSE /\ Exit(1)
                /\ UNCHANGED repositories

\* main(), lines 368-369
main_file ==
    /\ pc = "file"
    /\ IF args.file
       THEN load_from_file
       ELSE Goto("extend") /\ UNCHANGED <<repositories, listfile>>
    /\ UNCHANGED <<args, username, dry_run, successful_deletions,
                   failed_deletions, total, valid_repos, idx, log, calls,
                   prompts, config, listed>>

\* main(), lines 371-373
main_extend ==
    /\ pc = "extend"
    /\ repositories' = IF args.repositories # <<>>
                       THEN repositories \o args.repositories
                       ELSE repositories
    /\ Goto("select")
    /\ UNCHANGED <<args, username, dry_run, successful_deletions,
                   failed_deletions, total, valid_repos, idx, log, calls,
                   prompts, config, listfile, listed>>

\* list_repositories, line 115: strip every line, keep the non-empty ones
RECURSIVE list_names(_)
list_names(lines) ==
    IF lines = <<>> THEN <<>>
    ELSE IF strip(Head(lines)) # <<>>
         THEN <<strip(Head(lines))>> \o list_names(Tail(lines))
         ELSE list_names(Tail(lines))

pick_short(repos, num_str) ==
    LET num == int(num_str)
    IN  IF num.ok /\ 1 <= num.val /\ num.val < Len(repos)
        THEN <<repos[num.val]>>
        ELSE <<>>

\* lines 150-156: one token of the selection against the listing
pick(repos, num_str) ==
    LET num == int(num_str)
    IN  IF num.ok /\ 1 <= num.val /\ num.val <= Len(repos)
        THEN <<repos[num.val]>>
        ELSE <<>>

\* the loop of lines 147-157
RECURSIVE pick_all(_, _)
pick_all(repos, tokens) ==
    IF tokens = <<>> THEN <<>>
    ELSE pick(repos, Head(tokens)) \o pick_all(repos, Tail(tokens))

\* lines 139-157: the selection made by one line of input
select(repos, text) ==
    LET selection == strip(text)
    IN  IF lower(selection) = <<"a", "l", "l">>
        THEN repos
        ELSE pick_all(repos, split(selection))

\* interactive_selection, lines 119-161; Lists and Inputs are what the gh
\* client may answer and what the operator may type
interactive_selection(Lists, Inputs) ==
    \E r \in Lists :
        LET repos == IF r.ok THEN list_names(r.lines) ELSE <<>>
        IN  /\ calls' = Append(calls, Call("list", <<username>>, r.ok))
            /\ listed' = repos
            /\ IF repos = <<>>
               THEN Exit(0) /\ UNCHANGED <<repositories, prompts>>
               ELSE \E inp \in Inputs :
                      /\ prompts' = Append(prompts, <<"select", inp>>)
                      /\ IF inp.interrupt
                         THEN Exit(0) /\ UNCHANGED repositories
                         ELSE /\ repositories' = select(repos, inp.text)
                              /\ IF repositories' = <<>>
                                 THEN Exit(0)
                                 ELSE Goto("batch_delete")

wants_picker_flag_only(interactive, repos) == interactive

\* line 376
wants_picker(interactive, repos) == interactive \/ repos = <<>>

\* main(), lines 375-386
main_select(Lists, Inputs) ==
    /\ pc = "select"
    /\ IF wants_picker(args.interactive, repositories)
       THEN interactive_selection(Lists, Inputs)
       ELSE /\ IF repositories = <<>> THEN Exit(0) ELSE Goto("batch_delete")
            /\ UNCHANGED <<repositories, calls, prompts, listed>>
    /\ UNCHANGED <<args, username, dry_run, successful_deletions,
                   failed_deletions, total, valid_repos, idx, log, config,
                   listfile>>

-----------------------------------------------------------------------------
(* batch_delete *)

\* lines 240-249
batch_start ==
    /\ pc = "batch_delete"
    /\ total' = Len(repositories)
    /\ successful_deletions' = 0
    /\ failed_deletions' = 0
    /\ valid_repos' = <<>>
    /\ idx' = 1
    /\ Goto("validate")
    /\ UNCHANGED <<args, username, repositories, dry_run, log, calls, prompts,
                   config, listfile, listed>>

keep_valid_any(valid, repo, ok) == Append(valid, repo)

\* lines 251-252
keep_valid(valid, repo, ok) == IF ok THEN Append(valid, repo) ELSE valid

count_invalid_none(failed, ok) == failed

\* lines 253-255
count_invalid(failed, ok) == IF ok THEN failed ELSE failed + 1

\* one iteration of the loop of lines 250-255, with validate_repository
validate_step ==
    /\ pc = "validate"
    /\ idx <= Len(repositories)
    /\ \E ok \in BOOLEAN :
        LET repo == repositories[idx]
        IN  /\ calls' = Append(calls, Call("view", FullName(username, repo), ok))
            /\ valid_repos' = keep_valid(valid_repos, repo, ok)
            /\ failed_deletions' = count_invalid(failed_deletions, ok)
    /\ idx' = idx + 1
    /\ Goto("validate")
    /\ UNCHANGED <<args, username, repositories, dry_run,
                   successful_deletions, total, log, prompts, config,
                   listfile, listed>>

validate_end_noabort ==
    /\ pc = "validate"
    /\ idx > Len(repositories)
    /\ Goto("confirm")
    /\ UNCHANGED <<args, username, repositories, dry_run,
                   successful_deletions, failed_deletions, total, valid_repos,
                   idx, log, calls, prompts, config, listfile, listed>>

\* lines 257-259
validate_end ==
    /\ pc = "validate"
    /\ idx > Len(repositories)
    /\ IF valid_repos = <<>> THEN Exit(1) ELSE Goto("confirm")
    /\ UNCHANGED <<args, username, repositories, dry_run,
                   successful_deletions, failed_deletions, total, valid_repos,
                   idx, log, calls, prompts, config, listfile, listed>>

confirmed_stripped(text) == strip(text) = DELETE

\* line 275
confirmed(text) == text = DELETE

\* lines 261-283
confirm ==
    /\ pc = "confirm"
    /\ IF ~args.auto_confirm
       THEN \E inp \in ConfirmInputs :
               /\ prompts' = Append(prompts, <<"confirm", inp>>)
               /\ IF ~inp.interrupt /\ confirmed(inp.text)
                  THEN Goto("delete") ELSE Exit(0)
       ELSE Goto("delete") /\ UNCHANGED prompts
    /\ idx' = 1
    /\ UNCHANGED <<args, username, repositories, dry_run,
                   successful_deletions, failed_deletions, total, valid_repos,
                   log, calls, config, listfile, listed>>

delete_repository_live(repo, ok, result) ==
    /\ calls' = Append(calls, Call("delete", FullName(username, repo), ok))
    /\ log' = Append(log, <<IF ok THEN "SUCCESS" ELSE "FAILED",
                            FullName(username, repo)>>)
    /\ result = ok

\* delete_repository, lines 218-236: TRUE/FALSE is the value returned
delete_repository(repo, ok, result) ==
    IF dry_run
    THEN /\ result = TRUE
         /\ UNCHANGED <<calls, log>>
    ELSE /\ calls' = Append(calls, Call("delete", FullName(username, repo), ok))
         /\ log' = Append(log, <<IF ok THEN "SUCCESS" ELSE "FAILED",
                                 FullName(username, repo)>>)
         /\ result = ok

delete_step_stop ==
    /\ pc = "delete"
    /\ idx <= Len(valid_repos)
    /\ \E ok, result \in BOOLEAN :
        /\ delete_repository(valid_repos[idx], ok, result)
        /\ IF result
           THEN /\ successful_deletions' = successful_deletions + 1
                /\ UNCHANGED failed_deletions
           ELSE /\ failed_deletions' = failed_deletions + 1
                /\ UNCHANGED successful_deletions
    /\ idx' = IF failed_deletions' > failed_deletions
              THEN Len(valid_repos) + 1 ELSE idx + 1
    /\ Goto("delete")
    /\ UNCHANGED <<args, username, repositories, dry_run, total, valid_repos,
                   prompts, config, listfile, listed>>

\* one iteration of the loop of lines 286-295
delete_step ==
    /\ pc = "delete"
    /\ idx <= Len(valid_repos)
    /\ \E ok, result \in BOOLEAN :
        /\ delete_repository(valid_repos[idx], ok, result)
        /\ IF result
           THEN /\ successful_deletions' = successful_deletions + 1
                /\ UNCHANGED failed_deletions
           ELSE /\ failed_deletions' = failed_deletions + 1
                /\ UNCHANGED successful_deletions
    /\ idx' = idx + 1
    /\ Goto("delete")
    /\ UNCHANGED <<args, username, repositories, dry_run, total, valid_repos,
                   prompts, config, listfile, listed>>

\* lines 297-311, then main returns: the process ends with code 0
summary ==
    /\ pc = "delete"
    /\ idx > Len(valid_repos)
    /\ log' = IF ~dry_run
              THEN Append(log, <<"SUMMARY",
                                 successful_deletions + failed_deletions,
                                 successful_deletions, failed_deletions>>)
              ELSE log
    /\ pc' = "done"
    /\ exit_code' = 0
    /\ UNCHANGED <<args, username, repositories, dry_run,
                   successful_deletions, failed_deletions, total, valid_repos,
                   idx, calls, prompts, config, listfile, listed>>

-----------------------------------------------------------------------------
(* Specifications.  The run of main() up to the call of batch_delete, the  *)
(* picker on longer listings, and batch_delete on longer candidate lists   *)
(* are explored separately.                                                *)

MainNext ==
    \/ main_start
    \/ check_gh
    \/ check_auth
    \/ get_username
    \/ main_config
    \/ main_file
    \/ main_extend
    \/ main_select(ListOutcomes, SelectionInputs)

SpecMain == Init /\ [][MainNext]_vars

\* longer listings and more kinds of typed selection, for the picker alone
DigitChars == <<"1", "2", "3", "4", "5", "6", "7", "8", "9">>

ListLine(k) ==
    IF k = 2 THEN <<" ", "r", DigitChars[k], " ">> ELSE <<"r", DigitChars[k]>>

PickerLists ==
    {[ok |-> FALSE, lines |-> <<>>]}
    \cup {[ok |-> TRUE, lines |-> [k \in 1..n |-> ListLine(k)]] :
             n \in 0..MaxListed}
    \cup {[ok |-> TRUE, lines |-> <<ListLine(1), <<" ">>, ListLine(2)>>]}

PickerInputs ==
    {Interrupt, Typed(<<"a", "l", "l">>), Typed(<<"A", "L", "L">>),
     Typed(<<" ", "A", "l", "l", " ">>), Typed(<<>>), Typed(<<" ">>),
     Typed(<<"1">>), Typed(<<"2", " ", "1">>), Typed(<<"1", " ", "1">>),
     Typed(<<"1", " ", "3", " ", "9", "9", " ", "a", "b", "c">>),
     Typed(<<"0", " ", "-", "1", " ", "+", "2">>),
     Typed(<<"a", "l", "l", " ", "1">>), Typed(<<"5", "\t", "4">>),
     Typed(<<"6">>), Typed(<<"0", "3">>), Typed(<<"1", "_", "0">>),
     Typed(<<"9", "9">>), Typed(<<"a", "b", "c">>)}

\* `tool -u f [-a] [-d] [--interactive] [repo]` before line 376
PickerInit ==
    /\ pc = "select"
    /\ exit_code = -1
    /\ \E rs \in SeqsUpTo(Names, 1), a, d, i \in BOOLEAN :
        /\ wants_picker(i, rs)
        /\ args = [repositories |-> rs, username |-> <<"f">>, file |-> FALSE,
                   config |-> FALSE, auto_confirm |-> a, dry_run |-> d,
                   interactive |-> i]
        /\ repositories = rs
        /\ dry_run = d
    /\ username = <<"f">>
    /\ successful_deletions = 0
    /\ failed_deletions = 0
    /\ total = 0
    /\ valid_repos = <<>>
    /\ idx = 0
    /\ log = <<<<"Starting">>>>
    /\ calls = <<>>
    /\ prompts = <<>>
    /\ config = [status |-> "unread", json |-> NoJson]
    /\ listfile = [status |-> "unread", lines |-> <<>>]
    /\ listed = <<>>

PickerNext == main_select(PickerLists, PickerInputs)

SpecPicker == PickerInit /\ [][PickerNext]_vars

\* `tool -u f [-a] [-d] repo ...` at the call of batch_delete (line 386)
BatchInit ==
    /\ pc = "batch_delete"
    /\ exit_code = -1
    /\ \E rs \in SeqsUpTo(Names, MaxRepos) \ {<<>>}, a, d \in BOOLEAN :
        /\ args = [repositories |-> rs, username |-> <<"f">>, file |-> FALSE,
                   config |-> FALSE, auto_confirm |-> a, dry_run |-> d,
                   interactive |-> FALSE]
        /\ repositories = rs
        /\ dry_run = d
    /\ username = <<"f">>
    /\ successful_deletions = 0
    /\ failed_deletions = 0
    /\ total = 0
    /\ valid_repos = <<>>
    /\ idx = 0
    /\ log = <<<<"Starting">>>>
    /\ calls = <<>>
    /\ prompts = <<>>
    /\ config = [status |-> "unread", json |-> NoJson]
    /\ listfile = [status |-> "unread", lines |-> <<>>]
    /\ listed = <<>>

BatchNext ==
    \/ batch_start
    \/ validate_step
    \/ validate_end
    \/ confirm
    \/ delete_step
    \/ summary

SpecBatch == BatchInit /\ [][BatchNext]_vars

-----------------------------------------------------------------------------
(* Properties of batch_delete, checked under SpecBatch *)

Views == SelectSeq(calls, LAMBDA c : c.cmd = "view")

Deletes == SelectSeq(calls, LAMBDA c : c.cmd = "delete")

Count(seq, ok) == Cardinality({k \in 1..Len(seq) : seq[k].ok = ok})

\* the entries of rs whose position holds TRUE in oks, in the order of rs
RECURSIVE Surviving(_, _)
Surviving(rs, oks) ==
    IF rs = <<>> THEN <<>>
    ELSE (IF Head(oks) THEN <<Head(rs)>> ELSE <<>>)
         \o Surviving(Tail(rs), Tail(oks))

ViewOks == [k \in 1..Len(Views) |-> Views[k].ok]

ValidationOver == pc \in {"confirm", "delete", "done", "exit"}

OutcomeLines ==
    SelectSeq(log, LAMBDA l : l[1] \in {"SUCCESS", "FAILED"})

\* C1: the repositories handed to the deletion pass are exactly the
\* candidates whose validation call succeeded, in the original order and
\* with duplicates kept; every candidate is validated once, in order; delete
\* calls go only to that surviving sequence, position by position; each
\* failed validation adds exactly one to the failure counter.
C1_ValidatedSubsequence ==
    /\ pc = "validate" => Len(Views) = idx - 1
    /\ ValidationOver => Len(Views) = Len(repositories)
    /\ \A k \in 1..Len(Views) :
          Views[k].target = <<username, repositories[k]>>
    /\ pc \in {"validate"} \/ ValidationOver =>
          /\ valid_repos =
               Surviving(SubSeq(repositories, 1, Len(Views)), ViewOks)
          /\ failed_deletions = Count(Views, FALSE) + Count(Deletes, FALSE)
    /\ Len(Deletes) <= Count(Views, TRUE)
    /\ \A k \in 1..Len(Deletes) :
          Deletes[k].target =
             <<username, Surviving(repositories, ViewOks)[k]>>

\* C1 witness: a duplicated name validated once with success and once with
\* failure, and the live deletion pass run to its end on the survivors
C1_Witness ==
    /\ pc = "done"
    /\ ~dry_run
    /\ Len(repositories) = 3
    /\ repositories[1] = repositories[2]
    /\ Views[1].ok /\ ~Views[2].ok /\ Views[3].ok
    /\ repositories[3] # repositories[1]
    /\ Len(Deletes) = 2

\* C2: without auto-confirm the deletion pass (live or dry-run) is reached
\* only after the operator typed exactly DELETE; any other answer, or an
\* interruption, ends the run with exit code 0 and nothing deleted; with
\* auto-confirm no prompt is shown.
C2_ConfirmationGate ==
    LET exact == [interrupt |-> FALSE,
                  text |-> <<"D", "E", "L", "E", "T", "E">>]
    IN  /\ args.auto_confirm => prompts = <<>>
        /\ Len(prompts) <= 1
        /\ \A k \in 1..Len(prompts) : prompts[k][1] = "confirm"
        /\ (~args.auto_confirm /\
              (pc \in {"delete", "done"} \/ Deletes # <<>>
                 \/ successful_deletions > 0)) =>
              prompts = <<<<"confirm", exact>>>>
        /\ (prompts # <<>> /\ prompts[1][2] # exact) =>
              /\ pc = "exit"
              /\ exit_code = 0
              /\ Deletes = <<>>
              /\ successful_deletions = 0

\* C2 witness: the answer 'DELETE ' (trailing space) cancelled a live run
C2_Witness ==
    /\ pc = "exit"
    /\ exit_code = 0
    /\ ~dry_run
    /\ prompts = <<<<"confirm",
                     [interrupt |-> FALSE,
                      text |-> <<"D", "E", "L", "E", "T", "E", " ">>]>>>>
    /\ Len(valid_repos) = 2

\* C3: in dry-run mode no delete call is issued, no SUCCESS, FAILED or
\* SUMMARY line is logged, every candidate is still validated, and the
\* success counter grows by one per repository of the execution pass.
C3_DryRun ==
    dry_run =>
        /\ Deletes = <<>>
        /\ \A k \in 1..Len(log) :
              log[k][1] \notin {"SUCCESS", "FAILED", "SUMMARY"}
        /\ ValidationOver => Len(Views) = Len(repositories)
        /\ pc = "delete" => successful_deletions = idx - 1
        /\ pc = "done" => successful_deletions = Count(Views, TRUE)
        /\ pc \in {"validate", "confirm", "exit"} => successful_deletions = 0

\* C3 witness: a finished dry run over two valid and one invalid candidate
C3_Witness ==
    /\ dry_run
    /\ pc = "done"
    /\ Len(Views) = 3
    /\ successful_deletions = 2
    /\ failed_deletions = 1

\* C4: when every candidate fails validation the run ends with exit code 1,
\* with no confirmation prompt and no deletion, whatever the flags.
C4_NoValidAborts ==
    (ValidationOver /\ \A k \in 1..Len(Views) : ~Views[k].ok) =>
        /\ pc = "exit"
        /\ exit_code = 1
        /\ prompts = <<>>
        /\ Deletes = <<>>
        /\ successful_deletions = 0
        /\ OutcomeLines = <<>>

\* C4 witness: two candidates, both invalid, under auto-confirm and dry-run
C4_Witness ==
    /\ pc = "exit"
    /\ exit_code = 1
    /\ args.auto_confirm
    /\ dry_run
    /\ Len(Views) = 2
    /\ ~Views[1].ok /\ ~Views[2].ok

\* C5: in live mode every validated repository gets exactly one delete
\* call, in list order, a failure neither being retried nor ending the
\* pass; each success counts one success and logs one SUCCESS line, each
\* failure counts one failure and logs one FAILED line.
C5_LiveDeletion ==
    ~dry_run =>
        /\ pc = "delete" => Len(Deletes) = idx - 1
        /\ pc = "done" => Len(Deletes) = Count(Views, TRUE)
        /\ \A k \in 1..Len(Deletes) :
              Deletes[k].target =
                 <<username, Surviving(repositories, ViewOks)[k]>>
        /\ successful_deletions = Count(Deletes, TRUE)
        /\ failed_deletions = Count(Views, FALSE) + Count(Deletes, FALSE)
        /\ OutcomeLines =
             [k \in 1..Len(Deletes) |->
                <<IF Deletes[k].ok THEN "SUCCESS" ELSE "FAILED",
                  Deletes[k].target>>]

\* C5 witness: a failed delete followed by a successful and a failed one
C5_Witness ==
    /\ pc = "done"
    /\ ~dry_run
    /\ Len(Deletes) = 3
    /\ ~Deletes[1].ok /\ Deletes[2].ok /\ ~Deletes[3].ok

\* C6: at the summary successful + failed equals the number of candidates
\* given to batch_delete, and the process ends with exit code 0.
C6_SummaryTotals ==
    pc = "done" =>
        /\ successful_deletions + failed_deletions = Len(repositories)
        /\ total = Len(repositories)
        /\ exit_code = 0
        /\ ~dry_run =>
              log[Len(log)] = <<"SUMMARY", Len(repositories),
                                successful_deletions, failed_deletions>>

\* C6 witness: one candidate failed validation and every delete failed
C6_Witness ==
    /\ pc = "done"
    /\ exit_code = 0
    /\ Len(repositories) = 3
    /\ Count(Views, FALSE) = 1
    /\ Len(Deletes) = 2
    /\ Count(Deletes, TRUE) = 0
    /\ failed_deletions = 3

-----------------------------------------------------------------------------
(* Properties of main() up to the call of batch_delete, under SpecMain *)

\* s without its leading and trailing whitespace: the one slice of s that
\* neither starts nor ends with whitespace and leaves only whitespace out
Trimmed(s) ==
    CHOOSE t \in {SubSeq(s, i, j) : i \in 1..(Len(s) + 1), j \in 0..Len(s)} :
        \E i \in 1..(Len(s) + 1), j \in 0..Len(s) :
            /\ t = SubSeq(s, i, j)
            /\ \A k \in 1..Len(s) : (k < i \/ k > j) => s[k] \in Whitespace
            /\ t # <<>> => (t[1] \notin Whitespace
                            /\ t[Len(t)] \notin Whitespace)

\* the entries of a list file: trimmed lines, blank and '#' lines left out
Entries(lines) ==
    SelectSeq([k \in 1..Len(lines) |-> Trimmed(lines[k])],
              LAMBDA t : t # <<>> /\ t[1] # "#")

Present(json, field) == field \in DOMAIN json /\ json[field] # <<>>

BaseList ==
    IF args.file THEN Entries(listfile.lines)
    ELSE IF args.config /\ Present(config.json, "repositories")
         THEN config.json["repositories"]
         ELSE <<>>

\* C7: before the picker is considered the candidate list is B followed by
\* the positional arguments, B being the list file's trimmed, non-empty,
\* non-'#' lines when --file is given, else the configuration's non-empty
\* repositories when --config is given, else empty.
C7_CandidateList ==
    /\ pc = "extend" => repositories = BaseList
    /\ pc = "select" => repositories = BaseList \o args.repositories

\* C7 witness: a list file with a comment and a padded name replaced the
\* configuration's list, and two positional arguments followed it
C7_Witness ==
    /\ pc = "select"
    /\ args.file /\ args.config
    /\ Present(config.json, "repositories")
    /\ listfile.lines = <<<<" ", "#", "a", "\n">>, <<" ", "b", " ", "\n">>>>
    /\ args.repositories = <<<<"a">>, <<"b">>>>
    /\ repositories = <<<<"b">>, <<"a">>, <<"b">>>>

PickerInvoked == \E k \in 1..Len(calls) : calls[k].cmd = "list"

\* C8: the picker runs if and only if --interactive was given or the list
\* is empty once configuration, list file and positional arguments are
\* applied; otherwise the list reaches batch_delete unchanged.
C8_PickerIff ==
    /\ ~PickerInvoked
    /\ [][/\ pc # "select" => (PickerInvoked' <=> PickerInvoked)
          /\ pc = "select" =>
                /\ PickerInvoked' <=> (args.interactive \/ repositories = <<>>)
                /\ ~(args.interactive \/ repositories = <<>>) =>
                      /\ repositories' = repositories
                      /\ prompts' = prompts
                      /\ pc' = "batch_delete"]_vars

\* C8 witness: no --interactive, an empty list, and a selection made in the
\* picker that goes on to batch_delete
C8_Witness ==
    /\ pc = "batch_delete"
    /\ ~args.interactive
    /\ args.repositories = <<>>
    /\ PickerInvoked
    /\ repositories = listed

LoginCalls == SelectSeq(calls, LAMBDA c : c.cmd = "api user login")

Identity ==
    IF LoginCalls # <<>> /\ LoginCalls[1].ok
    THEN Trimmed(LoginCalls[1].target) ELSE <<>>

ResolvedBeforeConfig ==
    IF args.username # <<>> THEN args.username ELSE Identity

\* C10: the username is the configuration's when --config is given and the
\* field is present and non-empty, else the -u value when given, else the
\* identity the client reports; the identity is queried only without a -u
\* value, and a failed query leaves the username empty and the run going.
C10_Username ==
    /\ [](/\ LoginCalls # <<>> => (args.username = <<>> /\ Len(LoginCalls) = 1)
          /\ (pc \in {"config", "file", "extend", "select", "batch_delete"}
                /\ args.username = <<>>) => Len(LoginCalls) = 1
          /\ pc = "config" => username = ResolvedBeforeConfig
          /\ pc \in {"file", "extend", "select", "batch_delete"} =>
                username = IF args.config /\ Present(config.json, "username")
                           THEN config.json["username"]
                           ELSE ResolvedBeforeConfig)
    /\ [][pc = "get_username" => (pc' = "config" /\ exit_code' = -1)]_vars

\* C10 witness: a configuration with only repositories left the detected
\* identity in place up to the call of batch_delete
C10_Witness ==
    /\ pc = "batch_delete"
    /\ args.config
    /\ config.status = "ok"
    /\ DOMAIN config.json = {"repositories"}
    /\ args.username = <<>>
    /\ LoginCalls # <<>> /\ LoginCalls[1].ok
    /\ username = <<"g">>

-----------------------------------------------------------------------------
(* Properties of the picker, under SpecPicker *)

\* the repositories named by the in-range integer tokens, in token order
ByTokens(repos, text) ==
    LET toks == split(text)
        good == SelectSeq([k \in 1..Len(toks) |-> k],
                          LAMBDA k : /\ int(toks[k]).ok
                                     /\ 1 <= int(toks[k]).val
                                     /\ int(toks[k]).val <= Len(repos))
    IN  [j \in 1..Len(good) |-> repos[int(toks[good[j]]).val]]

Answered == prompts # <<>> /\ ~prompts[1][2].interrupt

\* what the run does with the selection `expected`
SelectionOutcome(expected) ==
    IF expected = <<>>
    THEN pc = "exit" /\ exit_code = 0
    ELSE pc = "batch_delete" /\ repositories = expected

\* C9 as stated: the input 'all' selects all the listed repositories, any
\* other input selects by its in-range integer tokens; an empty selection
\* exits with code 0.
C9_AsStated ==
    Answered =>
        LET text == prompts[1][2].text
        IN  SelectionOutcome(IF Trimmed(text) = <<"a", "l", "l">>
                             THEN listed
                             ELSE ByTokens(listed, text))

\* C9: the input 'all' in any letter case (surrounding whitespace aside)
\* selects all the listed repositories in listed order; any other input
\* selects, in token order, the repository at index k for each token that
\* is an integer k with 1 <= k <= N; other tokens are skipped; an empty
\* selection exits with code 0.
C9_Selection ==
    Answered =>
        LET text == prompts[1][2].text
        IN  SelectionOutcome(IF lower(Trimmed(text)) = <<"a", "l", "l">>
                             THEN listed
                             ELSE ByTokens(listed, text))

\* C9 witness: '1 3 99 abc' against five listed repositories
C9_Witness ==
    /\ pc = "batch_delete"
    /\ Len(listed) = 5
    /\ prompts[1][2].text =
          <<"1", " ", "3", " ", "9", "9", " ", "a", "b", "c">>
    /\ repositories = <<listed[1], listed[3]>>

====
